---- MODULE Spec2Model ----
(***************************************************************************)
(* Model of eta.core.data: the DataFileSequence index interval with its    *)
(* shared iteration cursor, and the DataRecords / BaseDataRecord           *)
(* dictionary round trip.                                                  *)
(*                                                                         *)
(* An optional Python value (None or an int) is a sequence of length 0 or  *)
(* 1: <<>> is None and <<i>> is the integer i.                             *)
(***************************************************************************)
EXTENDS Integers, Sequences, FiniteSets, TLC

\* ---------------------------------------------------------------- bounds
\* Largest index a caller passes to gen_path, check_bounds or a setter.
MaxIndex == 3
\* Callers pass indices down to -NegRange.
NegRange == 2

Indices == (0 - NegRange)..(MaxIndex + 1)

\* ----------------------------------------------------------------- state
VARIABLES
    lower_bound,        \* DataFileSequence._lower_bound
    upper_bound,        \* DataFileSequence._upper_bound
    immutable_bounds,   \* DataFileSequence.immutable_bounds
    iter_index,         \* DataFileSequence._iter_index: <<>> is None
    ret,                \* outcome of the last call on the sequence
    lower0,             \* lower_bound as parsed at construction
    upper0,             \* upper_bound as parsed at construction
    yielded,            \* indices whose paths __next__ returned in the undisturbed iteration
    clean,              \* only __next__ calls happened since the last __iter__
    prevrun,            \* <<run>>: the run of the previous undisturbed, exhausted iteration
    got,                \* per for-loop over the sequence: the indices it received
    stat,               \* per for-loop: "idle", "running", "done" or "failed"
    cont,               \* a DataRecords container: its class, _ELE_CLS and elements
    rret                \* outcome of the last call on the container

seqvars == <<lower_bound, upper_bound, immutable_bounds, iter_index, ret,
             lower0, upper0>>
loopvars == <<yielded, clean, prevrun>>
concvars == <<got, stat>>
recvars == <<cont, rret>>

vars == <<seqvars, loopvars, concvars, recvars>>

None == <<>>

\* `self.sequence % index`: the pattern with the index filled in.
Path(index) == [sequence |-> "%05d", index |-> index]

\* The outcome of a call: err = "" when it returned, path = <<p>> when it
\* returned the path p, flag is the boolean returned by check_bounds.
Ret(op, arg, err, path, flag) ==
    [op |-> op, arg |-> arg, err |-> err, path |-> path, flag |-> flag]

Min(a, b) == IF a < b THEN a ELSE b
Max(a, b) == IF a > b THEN a ELSE b

\* ------------------------------------------------------------ operations
\* Mutant of InBounds: the upper comparison is off by one.
InBounds_Loose(index, lb, ub) ==
    IF index < lb \/ index > ub + 1 THEN FALSE ELSE TRUE

\* DataFileSequence.check_bounds, on the bounds lb, ub
InBounds(index, lb, ub) ==
    IF index < lb \/ index > ub THEN FALSE ELSE TRUE

\* Mutant of GenPathOutcome: the branch extending the lower bound is missing.
GenPathOutcome_NoLowerExtend(index) ==
    IF immutable_bounds
    THEN IF ~InBounds(index, lower_bound, upper_bound)
         THEN [err |-> "OutOfBoundsError", lb |-> lower_bound, ub |-> upper_bound]
         ELSE [err |-> "", lb |-> lower_bound, ub |-> upper_bound]
    ELSE IF index < 0
    THEN [err |-> "NegativeIndexError", lb |-> lower_bound, ub |-> upper_bound]
    ELSE IF index = upper_bound + 1
    THEN [err |-> "", lb |-> lower_bound, ub |-> index]
    ELSE IF ~InBounds(index, lower_bound, upper_bound)
    THEN [err |-> "NonAdjacentExtensionError", lb |-> lower_bound, ub |-> upper_bound]
    ELSE [err |-> "", lb |-> lower_bound, ub |-> upper_bound]

\* Mutant of GenPathOutcome: any index above the upper bound extends it.
GenPathOutcome_ExtendAny(index) ==
    IF immutable_bounds
    THEN IF ~InBounds(index, lower_bound, upper_bound)
         THEN [err |-> "OutOfBoundsError", lb |-> lower_bound, ub |-> upper_bound]
         ELSE [err |-> "", lb |-> lower_bound, ub |-> upper_bound]
    ELSE IF index < 0
    THEN [err |-> "NegativeIndexError", lb |-> lower_bound, ub |-> upper_bound]
    ELSE IF index = lower_bound - 1
    THEN [err |-> "", lb |-> index, ub |-> upper_bound]
    ELSE IF index >= upper_bound + 1
    THEN [err |-> "", lb |-> lower_bound, ub |-> index]
    ELSE IF ~InBounds(index, lower_bound, upper_bound)
    THEN [err |-> "NonAdjacentExtensionError", lb |-> lower_bound, ub |-> upper_bound]
    ELSE [err |-> "", lb |-> lower_bound, ub |-> upper_bound]

\* Mutant of GenPathOutcome: the immutable branch checks only the lower bound.
GenPathOutcome_ImmutableLoose(index) ==
    IF immutable_bounds
    THEN IF index < lower_bound
         THEN [err |-> "OutOfBoundsError", lb |-> lower_bound, ub |-> upper_bound]
         ELSE [err |-> "", lb |-> lower_bound, ub |-> upper_bound]
    ELSE IF index < 0
    THEN [err |-> "NegativeIndexError", lb |-> lower_bound, ub |-> upper_bound]
    ELSE IF index = lower_bound - 1
    THEN [err |-> "", lb |-> index, ub |-> upper_bound]
    ELSE IF index = upper_bound + 1
    THEN [err |-> "", lb |-> lower_bound, ub |-> index]
    ELSE IF ~InBounds(index, lower_bound, upper_bound)
    THEN [err |-> "NonAdjacentExtensionError", lb |-> lower_bound, ub |-> upper_bound]
    ELSE [err |-> "", lb |-> lower_bound, ub |-> upper_bound]

\* DataFileSequence.gen_path as a function of the current state: the error
\* raised ("" if none) and the bounds after the call.
GenPathOutcome(index) ==
    IF immutable_bounds
    THEN IF ~InBounds(index, lower_bound, upper_bound)
         THEN [err |-> "OutOfBoundsError", lb |-> lower_bound, ub |-> upper_bound]
         ELSE [err |-> "", lb |-> lower_bound, ub |-> upper_bound]
    ELSE IF index < 0
    THEN [err |-> "NegativeIndexError", lb |-> lower_bound, ub |-> upper_bound]
    ELSE IF index = lower_bound - 1
    THEN [err |-> "", lb |-> index, ub |-> upper_bound]
    ELSE IF index = upper_bound + 1
    THEN [err |-> "", lb |-> lower_bound, ub |-> index]
    ELSE IF ~InBounds(index, lower_bound, upper_bound)
    THEN [err |-> "NonAdjacentExtensionError", lb |-> lower_bound, ub |-> upper_bound]
    ELSE [err |-> "", lb |-> lower_bound, ub |-> upper_bound]

\* A call that is not an iteration step disturbs the iteration in progress.
Disturb == clean' = FALSE /\ prevrun' = None /\ yielded' = <<>>

\* seq.gen_path(index), seq[index]
gen_path(index) ==
    LET o == GenPathOutcome(index) IN
    /\ lower_bound' = o.lb
    /\ upper_bound' = o.ub
    /\ ret' = Ret("gen_path", index, o.err,
                  IF o.err = "" THEN <<Path(index)>> ELSE None, FALSE)
    /\ Disturb
    /\ UNCHANGED <<immutable_bounds, iter_index, lower0, upper0, concvars, recvars>>

\* seq.check_bounds(index)
check_bounds(index) ==
    /\ ret' = Ret("check_bounds", index, "", None,
                  InBounds(index, lower_bound, upper_bound))
    /\ Disturb
    /\ UNCHANGED <<lower_bound, upper_bound, immutable_bounds, iter_index,
                   lower0, upper0, concvars, recvars>>

\* Mutant of set_lower_bound: the value is stored without the min().
set_lower_bound_noclamp(value) ==
    /\ IF immutable_bounds
       THEN /\ ret' = Ret("set_lower_bound", value, "ImmutableSequenceError", None, FALSE)
            /\ UNCHANGED lower_bound
       ELSE /\ ret' = Ret("set_lower_bound", value, "", None, FALSE)
            /\ lower_bound' = value
    /\ Disturb
    /\ UNCHANGED <<upper_bound, immutable_bounds, iter_index, lower0, upper0,
                   concvars, recvars>>

\* seq.lower_bound = value
set_lower_bound(value) ==
    /\ IF immutable_bounds
       THEN /\ ret' = Ret("set_lower_bound", value, "ImmutableSequenceError", None, FALSE)
            /\ UNCHANGED lower_bound
       ELSE /\ ret' = Ret("set_lower_bound", value, "", None, FALSE)
            /\ lower_bound' = Min(value, upper_bound)
    /\ Disturb
    /\ UNCHANGED <<upper_bound, immutable_bounds, iter_index, lower0, upper0,
                   concvars, recvars>>

\* Mutant of set_upper_bound: the immutable_bounds test is missing.
set_upper_bound_unguarded(value) ==
    /\ ret' = Ret("set_upper_bound", value, "", None, FALSE)
    /\ upper_bound' = Max(value, lower_bound)
    /\ Disturb
    /\ UNCHANGED <<lower_bound, immutable_bounds, iter_index, lower0, upper0,
                   concvars, recvars>>

\* Mutant of set_upper_bound: min() where max() belongs.
set_upper_bound_min(value) ==
    /\ IF immutable_bounds
       THEN /\ ret' = Ret("set_upper_bound", value, "ImmutableSequenceError", None, FALSE)
            /\ UNCHANGED upper_bound
       ELSE /\ ret' = Ret("set_upper_bound", value, "", None, FALSE)
            /\ upper_bound' = Min(value, lower_bound)
    /\ Disturb
    /\ UNCHANGED <<lower_bound, immutable_bounds, iter_index, lower0, upper0,
                   concvars, recvars>>

\* seq.upper_bound = value
set_upper_bound(value) ==
    /\ IF immutable_bounds
       THEN /\ ret' = Ret("set_upper_bound", value, "ImmutableSequenceError", None, FALSE)
            /\ UNCHANGED upper_bound
       ELSE /\ ret' = Ret("set_upper_bound", value, "", None, FALSE)
            /\ upper_bound' = Max(value, lower_bound)
    /\ Disturb
    /\ UNCHANGED <<lower_bound, immutable_bounds, iter_index, lower0, upper0,
                   concvars, recvars>>

\* Mutant of IterOp: a cursor that is in use is not reset.
IterOp_Keep ==
    /\ iter_index' = IF iter_index = None THEN <<lower_bound - 1>> ELSE iter_index
    /\ ret' = Ret("iter", 0, "", None, FALSE)
    /\ UNCHANGED <<lower_bound, upper_bound, immutable_bounds, lower0, upper0>>

\* iter(seq): the cursor is put one step before the lower bound.
IterOp ==
    /\ iter_index' = <<lower_bound - 1>>
    /\ ret' = Ret("iter", 0, "", None, FALSE)
    /\ UNCHANGED <<lower_bound, upper_bound, immutable_bounds, lower0, upper0>>

\* Mutant of NextOp: the path of the cursor is generated without the
\* check_bounds test, and the step ends when gen_path raises.
NextOp_NoCheck ==
    IF iter_index = None
    THEN /\ ret' = Ret("next", 0, "TypeError", None, FALSE)
         /\ UNCHANGED <<lower_bound, upper_bound, iter_index>>
    ELSE LET i == iter_index[1] + 1
             o == GenPathOutcome(i)
         IN IF o.err # ""
            THEN /\ iter_index' = None
                 /\ ret' = Ret("next", 0, "StopIteration", None, FALSE)
                 /\ UNCHANGED <<lower_bound, upper_bound>>
            ELSE /\ iter_index' = <<i>>
                 /\ lower_bound' = o.lb
                 /\ upper_bound' = o.ub
                 /\ ret' = Ret("next", 0, "", <<Path(i)>>, FALSE)

\* next(seq): `None += 1` is a TypeError; otherwise the cursor advances and
\* the step either ends the iteration or generates the path of the cursor.
NextOp ==
    IF iter_index = None
    THEN /\ ret' = Ret("next", 0, "TypeError", None, FALSE)
         /\ UNCHANGED <<lower_bound, upper_bound, iter_index>>
    ELSE LET i == iter_index[1] + 1 IN
         IF ~InBounds(i, lower_bound, upper_bound)
         THEN /\ iter_index' = None
              /\ ret' = Ret("next", 0, "StopIteration", None, FALSE)
              /\ UNCHANGED <<lower_bound, upper_bound>>
         ELSE LET o == GenPathOutcome(i) IN
              /\ iter_index' = <<i>>
              /\ lower_bound' = o.lb
              /\ upper_bound' = o.ub
              /\ ret' = Ret("next", 0, o.err,
                            IF o.err = "" THEN <<Path(i)>> ELSE None, FALSE)

\* What a step of NextOp leaves alone.
NextFrame == UNCHANGED <<immutable_bounds, lower0, upper0>>

\* The index of the path the step returned, if it returned one.
Got(r) == IF r.path = None THEN <<>> ELSE <<r.path[1].index>>

Iter ==
    /\ IterOp
    /\ yielded' = <<>>
    /\ clean' = TRUE
    /\ prevrun' = IF clean /\ ret.op = "next" /\ ret.err = "StopIteration"
                  THEN <<yielded>> ELSE None
    /\ UNCHANGED <<concvars, recvars>>

NextStep ==
    /\ NextOp
    /\ NextFrame
    /\ yielded' = IF clean THEN yielded \o Got(ret') ELSE yielded
    /\ UNCHANGED <<clean, prevrun, concvars, recvars>>

\* ---------------------------------------------- interleaved for-loops
\* Two `for path in seq:` loops over the same instance, each calling
\* iter(seq) once and then next(seq) until it raises.
Loops == {1, 2}

\* A loop is followed for at most MaxGot received paths.
MaxGot == 4

LoopIter(c) ==
    /\ stat[c] = "idle"
    /\ IterOp
    /\ got' = [got EXCEPT ![c] = <<>>]
    /\ stat' = [stat EXCEPT ![c] = "running"]
    /\ UNCHANGED <<loopvars, recvars>>

LoopNext(c) ==
    /\ stat[c] = "running"
    /\ Len(got[c]) < MaxGot
    /\ NextOp
    /\ NextFrame
    /\ got' = [got EXCEPT ![c] = @ \o Got(ret')]
    /\ stat' = [stat EXCEPT ![c] =
                   IF ret'.err = "" THEN "running"
                   ELSE IF ret'.err = "StopIteration" THEN "done" ELSE "failed"]
    /\ UNCHANGED <<loopvars, recvars>>

\* ------------------------------------------------------------- records
\* eta.core.config.no_default: the value of an optional argument not given.
no_default == "no_default"
\* Python's None as a field value.
PyNone == "None"

LabeledVideoRecord == "eta.core.data.LabeledVideoRecord"
DataRecords == "eta.core.data.DataRecords"
\* A subclass of DataRecords that overrides nothing.
SubRecords == "SubRecords"
ContainerClasses == {DataRecords, SubRecords}

\* A class object, and the string etau.get_class_name gives for it.
ClassObj(name) == [isclass |-> TRUE, name |-> name]
get_class_name(c) == [isclass |-> FALSE, name |-> c.name]

\* The elements of a sequence.
Elems(q) == {q[i] : i \in 1..Len(q)}

required(cls) == IF cls = LabeledVideoRecord THEN <<"video_path", "label">> ELSE <<>>
optional(cls) == IF cls = LabeledVideoRecord THEN <<"group">> ELSE <<>>
excluded(cls) == <<>>

\* Mutant of clean_optional: an attribute that is None is deleted too.
clean_optional_NoneToo(cls, attrs) ==
    LET unset == {o \in Elems(optional(cls)) :
                     o \in DOMAIN attrs /\ attrs[o] \in {no_default, PyNone}}
    IN [a \in (DOMAIN attrs) \ unset |-> attrs[a]]

\* BaseDataRecord.clean_optional, on the attribute dictionary of a record
clean_optional(cls, attrs) ==
    LET unset == {o \in Elems(optional(cls)) :
                     o \in DOMAIN attrs /\ attrs[o] = no_default}
    IN [a \in (DOMAIN attrs) \ unset |-> attrs[a]]

\* cls(**kwargs): LabeledVideoRecord.__init__ assigns the three attributes,
\* group defaulting to no_default, then BaseDataRecord.__init__ cleans up.
NewRecord(cls, kwargs) ==
    LET attrs == [a \in {"video_path", "label", "group"} |->
                     IF a \in DOMAIN kwargs THEN kwargs[a] ELSE no_default]
    IN [cls |-> cls, attrs |-> clean_optional(cls, attrs)]

\* Mutant of RecordFromDict: required keys are copied like optional ones,
\* only when d has them.
RecordFromDict_Lenient(cls, d) ==
    LET keys == (Elems(required(cls)) \cup Elems(optional(cls))) \cap DOMAIN d
    IN [err |-> "", key |-> "",
        rec |-> <<NewRecord(cls, [k \in keys |-> d[k]])>>]

\* BaseDataRecord.from_dict: the KeyError names the first required key that
\* d lacks.
RecordFromDict(cls, d) ==
    LET req == required(cls)
        missing == {i \in 1..Len(req) : req[i] \notin DOMAIN d}
        keys == Elems(req) \cup (Elems(optional(cls)) \cap DOMAIN d)
    IN IF missing # {}
       THEN [err |-> "MissingRequiredField",
             key |-> req[CHOOSE i \in missing : \A j \in missing : i <= j],
             rec |-> None]
       ELSE [err |-> "", key |-> "",
             rec |-> <<NewRecord(cls, [k \in keys |-> d[k]])>>]

\* BaseDataRecord.attributes: the instance attributes that are serialized.
attributes(r) == (DOMAIN r.attrs) \ Elems(excluded(r.cls))

\* Serializable.serialize of a record: its attributes() and their values,
\* with the element-class tag when the format puts it in each element.
SerializeRecord(r, tagged) ==
    LET keys == attributes(r) \cup (IF tagged THEN {"_RECORD_CLS"} ELSE {})
    IN [k \in keys |-> IF k \in attributes(r) THEN r.attrs[k] ELSE r.cls]

\* DataRecords(record_cls=rc, records=records)
NewDataRecords(rc, records) ==
    [cls |-> DataRecords, ELE_CLS |-> rc, elements |-> records]

\* Container.serialize: the container-class tag, the elements, and the
\* element-class tag either at container level or in each element.
ToDict(c, place) ==
    [CLS |-> c.cls,
     RECORD_CLS |-> IF place = "container" THEN <<get_class_name(c.ELE_CLS)>> ELSE None,
     records |-> [i \in 1..Len(c.elements) |->
                     SerializeRecord(c.elements[i], place = "element")]]

\* DataRecords.from_dict(d, record_cls): `.from_dict` of a str is an
\* AttributeError; the first record that fails to load ends the load.
FromDict(cls, d, record_cls) ==
    LET rc == IF record_cls # None THEN record_cls ELSE d.RECORD_CLS IN
    IF rc = None
    THEN [err |-> "MissingRecordClassError", key |-> "", val |-> None]
    ELSE LET rs == [i \in 1..Len(d.records) |->
                       IF rc[1].isclass
                       THEN RecordFromDict(rc[1].name, d.records[i])
                       ELSE [err |-> "AttributeError", key |-> "", rec |-> None]]
             bad == {i \in 1..Len(rs) : rs[i].err # ""}
         IN IF bad # {}
            THEN LET i == CHOOSE i \in bad : \A j \in bad : i <= j
                 IN [err |-> rs[i].err, key |-> rs[i].key, val |-> None]
            ELSE [err |-> "", key |-> "",
                  val |-> <<NewDataRecords(rc[1],
                                [i \in 1..Len(rs) |-> rs[i].rec[1]])>>]

\* At most MaxRecords elements are added to the container.
MaxRecords == 2

VideoPaths == {"a.mp4", "b.mp4"}
Labels == {"cat", "dog"}
\* group given as a string, given as None, or not given
Groups == {"g", PyNone, no_default}
\* The arguments of the LabeledVideoRecord constructor calls followed.
RecordArgs ==
    {<<"a.mp4", "cat", no_default>>, <<"b.mp4", "cat", "g">>,
     <<"a.mp4", "dog", PyNone>>}

RRet(op, o, record_cls) ==
    [op |-> op, err |-> o.err, key |-> o.key, val |-> o.val, record_cls |-> record_cls]

\* cont.add(LabeledVideoRecord(video_path, label, group))
add(video_path, label, group) ==
    /\ Len(cont.elements) < MaxRecords
    /\ cont' = [cont EXCEPT !.elements =
                   Append(@, NewRecord(LabeledVideoRecord,
                       [a \in {"video_path", "label", "group"} |->
                           IF a = "video_path" THEN video_path
                           ELSE IF a = "label" THEN label ELSE group]))]
    /\ rret' = [op |-> "add", group |-> group, err |-> "", key |-> "",
                val |-> None, record_cls |-> None]
    /\ UNCHANGED <<seqvars, loopvars, concvars>>

\* type(cont).from_dict(cont.serialize(), record_cls=record_cls)
round_trip(place, record_cls) ==
    /\ rret' = RRet("round_trip", FromDict(cont.cls, ToDict(cont, place), record_cls),
                    record_cls)
    /\ UNCHANGED <<cont, seqvars, loopvars, concvars>>

\* ------------------------------------------------- loading from a map
\* A record dictionary is followed for these key sets: complete, with the
\* optional group (a string or None), with an unknown key, and lacking one
\* or both required keys.
DictValue(k, g) ==
    IF k = "video_path" THEN "a.mp4"
    ELSE IF k = "label" THEN "cat"
    ELSE IF k = "group" THEN g ELSE "x"

RecordDicts ==
    {[k \in ks |-> DictValue(k, "g")] :
        ks \in {{"video_path", "label"}, {"video_path", "label", "group"},
                {"video_path", "label", "extra"}, {"video_path"},
                {"label", "group"}, {}}}
    \cup {[k \in {"video_path", "label", "group"} |-> DictValue(k, PyNone)]}

\* A DataRecords dictionary holds at most MaxDictLen records.
MaxDictLen == 2

SeqsOfLen(S, n) == [1..n -> S]

\* The DataRecords dictionaries with n records, with and without the
\* _RECORD_CLS key.
DictsOfLen(n) ==
    {[CLS |-> DataRecords, RECORD_CLS |-> t, records |-> rs] :
        t \in {None, <<get_class_name(ClassObj(LabeledVideoRecord))>>},
        rs \in SeqsOfLen(RecordDicts, n)}

Dicts == UNION {DictsOfLen(n) : n \in 0..MaxDictLen}

\* The dictionaries given to add_dict and add_json, with n records: each
\* record complete, complete with group None, or lacking label.
AddDictsOfLen(n) ==
    {d \in DictsOfLen(n) :
        /\ d.RECORD_CLS # None
        /\ \A i \in 1..n :
              /\ "video_path" \in DOMAIN d.records[i]
              /\ "extra" \notin DOMAIN d.records[i]
              /\ ("group" \in DOMAIN d.records[i] => d.records[i]["group"] = PyNone)}

RecordClassArgs == {None, <<ClassObj(LabeledVideoRecord)>>}

\* etas.read_json(json_path): the dictionary the JSON file holds.
read_json(file) == file.content

\* DataRecords.from_json(json_path, record_cls)
FromJson(cls, file, record_cls) == FromDict(cls, read_json(file), record_cls)

\* DataRecords.from_dict(d, record_cls=record_cls), d being rret.d
from_dict ==
    /\ rret.op \in {"input", "from_dict", "from_json", "record_from_dict"}
    /\ LET o == FromDict(DataRecords, rret.d, rret.record_cls) IN
       rret' = [op |-> "from_dict", d |-> rret.d, record_cls |-> rret.record_cls,
                err |-> o.err, key |-> o.key, val |-> o.val]
    /\ UNCHANGED <<cont, seqvars, loopvars, concvars>>

\* DataRecords.from_json(json_path, record_cls=record_cls), the file holding rret.d
from_json ==
    /\ rret.op \in {"input", "from_dict", "from_json", "record_from_dict"}
    /\ LET o == FromJson(DataRecords, [path |-> "records.json", content |-> rret.d],
                         rret.record_cls) IN
       rret' = [op |-> "from_json", d |-> rret.d, record_cls |-> rret.record_cls,
                err |-> o.err, key |-> o.key, val |-> o.val]
    /\ UNCHANGED <<cont, seqvars, loopvars, concvars>>

\* LabeledVideoRecord.from_dict(rd), rd being the i-th record of rret.d
record_from_dict(i) ==
    /\ rret.op \in {"input", "from_dict", "from_json", "record_from_dict"}
    /\ i \in 1..Len(rret.d.records)
    /\ LET o == RecordFromDict(LabeledVideoRecord, rret.d.records[i]) IN
       rret' = [op |-> "record_from_dict", d |-> rret.d,
                record_cls |-> rret.record_cls, rd |-> rret.d.records[i],
                err |-> o.err, key |-> o.key, rec |-> o.rec]
    /\ UNCHANGED <<cont, seqvars, loopvars, concvars>>

\* ------------------------------------------- queries and culling
\* Positions are Python's: the first element is at position 0.

\* getattr(r, field) raises AttributeError for a record without the attribute.
HasField(elements, field) ==
    \A i \in 1..Len(elements) : field \in DOMAIN elements[i].attrs

EmptyDict == [k \in {} |-> <<>>]

\* lud[k].append(x) on a defaultdict(list)
AppendTo(lud, k, x) ==
    IF k \in DOMAIN lud
    THEN [lud EXCEPT ![k] = Append(@, x)]
    ELSE [j \in (DOMAIN lud) \cup {k} |-> IF j = k THEN <<x>> ELSE lud[j]]

RECURSIVE LookupLoop_OneBased(_, _, _)
\* Mutant of LookupLoop: positions are counted from 1.
LookupLoop_OneBased(elements, field, n) ==
    IF n = 0 THEN EmptyDict
    ELSE AppendTo(LookupLoop_OneBased(elements, field, n - 1),
                  elements[n].attrs[field], n)

RECURSIVE LookupLoop(_, _, _)
\* The defaultdict of build_lookup after the first n elements.
LookupLoop(elements, field, n) ==
    IF n = 0 THEN EmptyDict
    ELSE AppendTo(LookupLoop(elements, field, n - 1),
                  elements[n].attrs[field], n - 1)

\* DataRecords.build_lookup(field) on the elements
BuildLookup(elements, field) ==
    IF ~HasField(elements, field)
    THEN [err |-> "AttributeError", val |-> EmptyDict]
    ELSE [err |-> "", val |-> LookupLoop(elements, field, Len(elements))]

RECURSIVE SubsetsLoop(_, _, _)
\* The defaultdict of build_subsets after the first n elements.
SubsetsLoop(elements, field, n) ==
    IF n = 0 THEN EmptyDict
    ELSE AppendTo(SubsetsLoop(elements, field, n - 1),
                  elements[n].attrs[field], elements[n])

\* DataRecords.build_subsets(field) on the elements
BuildSubsets(elements, field) ==
    IF ~HasField(elements, field)
    THEN [err |-> "AttributeError", val |-> EmptyDict]
    ELSE [err |-> "", val |-> SubsetsLoop(elements, field, Len(elements))]

RECURSIVE KeysetLoop(_, _, _)
\* The set of build_keyset after the first n elements.
KeysetLoop(elements, field, n) ==
    IF n = 0 THEN {}
    ELSE KeysetLoop(elements, field, n - 1) \cup {elements[n].attrs[field]}

\* DataRecords.build_keyset(field) on the elements: list(keys) has the
\* set's values in no particular order, so it is kept as the set.
BuildKeyset(elements, field) ==
    IF ~HasField(elements, field)
    THEN [err |-> "AttributeError", val |-> {}]
    ELSE [err |-> "", val |-> KeysetLoop(elements, field, Len(elements))]

RECURSIVE KeepLoop(_, _, _)
\* The first n elements, those at a position in S kept.
KeepLoop(elements, S, n) ==
    IF n = 0 THEN <<>>
    ELSE IF (n - 1) \in S
         THEN Append(KeepLoop(elements, S, n - 1), elements[n])
         ELSE KeepLoop(elements, S, n - 1)

\* Container.keep_inds(inds): the elements at the given positions stay, in
\* their order in the container.
KeepInds(elements, inds) == KeepLoop(elements, Elems(inds), Len(elements))

RECURSIVE SortedSeq(_)
\* The integers of S in ascending order.
SortedSeq(S) ==
    IF S = {} THEN <<>>
    ELSE LET m == CHOOSE x \in S : \A y \in S : x <= y
         IN <<m>> \o SortedSeq(S \ {m})

\* Container.extract_inds(inds): a new container of the same class and
\* record class holding the elements at the given positions.
ExtractInds(c, inds) ==
    LET pos == SortedSeq(Elems(inds) \cap 0..(Len(c.elements) - 1))
    IN [cls |-> c.cls, ELE_CLS |-> c.ELE_CLS,
        elements |-> [j \in 1..Len(pos) |-> c.elements[pos[j] + 1]]]

\* Container.add_container(other): the elements of other are appended.
AddContainer(c, other) == [c EXCEPT !.elements = @ \o other.elements]

RECURSIVE SetToSeq(_)
\* The values of a Python set in the order a loop over it visits them.
SetToSeq(S) ==
    IF S = {} THEN <<>>
    ELSE LET x == CHOOSE x \in S : TRUE IN <<x>> \o SetToSeq(S \ {x})

RECURSIVE IndsLoop(_, _, _)
\* inds after the first n values of keep_values: inds += lud[v]
IndsLoop(lud, keep_values, n) ==
    IF n = 0 THEN <<>>
    ELSE IndsLoop(lud, keep_values, n - 1) \o lud[keep_values[n]]

\* Mutant of Cull: the removed values are the ones kept.
Cull_RemoveKept(elements, field, keep_values, remove_values) ==
    LET lu == BuildLookup(elements, field) IN
    IF lu.err # ""
    THEN [err |-> lu.err, key |-> "", elements |-> elements]
    ELSE
    LET lud == lu.val
        keep == IF remove_values # None /\ Len(remove_values[1]) > 0
                THEN <<SetToSeq((DOMAIN lud) \cap Elems(remove_values[1]))>>
                ELSE keep_values
    IN IF keep = None \/ Len(keep[1]) = 0
       THEN [err |-> "NoFilterCriteriaError", key |-> "", elements |-> elements]
       ELSE LET absent == {j \in 1..Len(keep[1]) : keep[1][j] \notin DOMAIN lud} IN
            IF absent # {}
            THEN [err |-> "KeyError",
                  key |-> keep[1][CHOOSE j \in absent : \A k \in absent : j <= k],
                  elements |-> elements]
            ELSE [err |-> "", key |-> "",
                  elements |-> KeepInds(elements,
                                   IndsLoop(lud, keep[1], Len(keep[1])))]

\* Mutant of Cull: `inds = lud[v]` where `inds += lud[v]` belongs.
Cull_LastOnly(elements, field, keep_values, remove_values) ==
    LET lu == BuildLookup(elements, field) IN
    IF lu.err # ""
    THEN [err |-> lu.err, key |-> "", elements |-> elements]
    ELSE
    LET lud == lu.val
        keep == IF remove_values # None /\ Len(remove_values[1]) > 0
                THEN <<SetToSeq((DOMAIN lud) \ Elems(remove_values[1]))>>
                ELSE keep_values
    IN IF keep = None \/ Len(keep[1]) = 0
       THEN [err |-> "NoFilterCriteriaError", key |-> "", elements |-> elements]
       ELSE LET absent == {j \in 1..Len(keep[1]) : keep[1][j] \notin DOMAIN lud} IN
            IF absent # {}
            THEN [err |-> "KeyError",
                  key |-> keep[1][CHOOSE j \in absent : \A k \in absent : j <= k],
                  elements |-> elements]
            ELSE [err |-> "", key |-> "",
                  elements |-> KeepInds(elements, lud[keep[1][Len(keep[1])]])]

\* DataRecords.cull(field, keep_values, remove_values) on the elements: the
\* error raised ("" if none) and the elements after the call.  keep_values
\* and remove_values are None or <<list>>.
Cull(elements, field, keep_values, remove_values) ==
    LET lu == BuildLookup(elements, field) IN
    IF lu.err # ""
    THEN [err |-> lu.err, key |-> "", elements |-> elements]
    ELSE
    LET lud == lu.val
        keep == IF remove_values # None /\ Len(remove_values[1]) > 0
                THEN <<SetToSeq((DOMAIN lud) \ Elems(remove_values[1]))>>
                ELSE keep_values
    IN IF keep = None \/ Len(keep[1]) = 0
       THEN [err |-> "NoFilterCriteriaError", key |-> "", elements |-> elements]
       ELSE LET absent == {j \in 1..Len(keep[1]) : keep[1][j] \notin DOMAIN lud} IN
            IF absent # {}
            THEN [err |-> "KeyError",
                  key |-> keep[1][CHOOSE j \in absent : \A k \in absent : j <= k],
                  elements |-> elements]
            ELSE [err |-> "", key |-> "",
                  elements |-> KeepInds(elements,
                                   IndsLoop(lud, keep[1], Len(keep[1])))]

Fields == {"label", "group"}

\* The lists given as keep_values or remove_values; "bird" is the label of
\* no record.
ValueLists ==
    {<<>>, <<"cat">>, <<"cat", "dog">>, <<"dog", "cat">>,
     <<"bird">>, <<"cat", "bird">>, <<"g">>}

\* The (field, keep_values, remove_values) of the calls followed: on label
\* one of the two lists given, none given, and both given; on group, which
\* a record may lack, one list given.
CullArgs ==
    {<<"label", k, r>> : k \in {<<v>> : v \in ValueLists}, r \in {None, <<<<>>>>}}
    \cup {<<"label", k, r>> : k \in {None, <<<<>>>>}, r \in {<<v>> : v \in ValueLists}}
    \cup {<<"label", None, None>>, <<"label", <<<<"cat">>>>, <<<<"cat">>>>>>,
          <<"label", <<<<"bird">>>>, <<<<"cat">>>>>>,
          <<"group", <<<<"g">>>>, None>>, <<"group", None, <<<<"g">>>>>>}

RECURSIVE Reverse(_)
Reverse(q) == IF q = <<>> THEN <<>> ELSE Append(Reverse(Tail(q)), Head(q))

\* The index lists given to subset_from_indices on n elements: every set
\* of positions, listed upwards and downwards.
IndexLists(n) ==
    {SortedSeq(S) : S \in SUBSET (0..(n - 1))}
    \cup {Reverse(SortedSeq(S)) : S \in SUBSET (0..(n - 1))}

\* cont.cull(field, keep_values=keep_values, remove_values=remove_values)
cull(field, keep_values, remove_values) ==
    LET o == Cull(cont.elements, field, keep_values, remove_values) IN
    /\ cont' = [cont EXCEPT !.elements = o.elements]
    /\ rret' = [op |-> "cull", field |-> field, keep |-> keep_values,
                remove |-> remove_values, err |-> o.err, key |-> o.key,
                before |-> Len(cont.elements),
                size |-> IF o.err = "" THEN <<Len(o.elements)>> ELSE None]
    /\ UNCHANGED <<seqvars, loopvars, concvars>>

\* The number of records of d before the first that lacks a required key.
Preceding(d) ==
    Cardinality({i \in 1..Len(d.records) :
        \A j \in 1..i : RecordFromDict(LabeledVideoRecord, d.records[j]).err = ""})

\* Mutant of add_dict: each record is added as soon as it is loaded.
add_dict_partial(d, record_cls) ==
    LET rc == IF record_cls # None THEN record_cls ELSE <<cont.ELE_CLS>>
        o == FromDict(cont.cls, d, rc)
        loaded == [i \in 1..Preceding(d) |->
                      RecordFromDict(rc[1].name, d.records[i]).rec[1]]
    IN
    /\ cont' = [cont EXCEPT !.elements = @ \o loaded]
    /\ rret' = [op |-> "add_dict", err |-> o.err, key |-> o.key,
                given |-> Len(d.records), preceding |-> Preceding(d),
                size |-> IF o.err = "" THEN <<Len(cont'.elements)>> ELSE None]
    /\ UNCHANGED <<seqvars, loopvars, concvars>>

\* cont.add_dict(d, record_cls=record_cls)
add_dict(d, record_cls) ==
    LET rc == IF record_cls # None THEN record_cls ELSE <<cont.ELE_CLS>>
        o == FromDict(cont.cls, d, rc)
    IN
    /\ cont' = IF o.err = "" THEN AddContainer(cont, o.val[1]) ELSE cont
    /\ rret' = [op |-> "add_dict", err |-> o.err, key |-> o.key,
                given |-> Len(d.records), preceding |-> Preceding(d),
                size |-> IF o.err = "" THEN <<Len(cont'.elements)>> ELSE None]
    /\ UNCHANGED <<seqvars, loopvars, concvars>>

\* cont.add_json(json_path, record_cls=record_cls)
add_json(file, record_cls) ==
    LET rc == IF record_cls # None THEN record_cls ELSE <<cont.ELE_CLS>>
        o == FromJson(cont.cls, file, rc)
    IN
    /\ cont' = IF o.err = "" THEN AddContainer(cont, o.val[1]) ELSE cont
    /\ rret' = [op |-> "add_json", err |-> o.err, key |-> o.key,
                given |-> Len(read_json(file).records),
                preceding |-> Preceding(read_json(file)),
                size |-> IF o.err = "" THEN <<Len(cont'.elements)>> ELSE None]
    /\ UNCHANGED <<seqvars, loopvars, concvars>>

\* Mutant of subset_from_indices: keep_inds on the container itself.
subset_from_indices_inplace(indices) ==
    /\ cont' = [cont EXCEPT !.elements = KeepInds(@, indices)]
    /\ rret' = [op |-> "subset_from_indices", indices |-> indices,
                val |-> <<cont'>>]
    /\ UNCHANGED <<seqvars, loopvars, concvars>>

\* cont.subset_from_indices(indices)
subset_from_indices(indices) ==
    /\ rret' = [op |-> "subset_from_indices", indices |-> indices,
                val |-> <<ExtractInds(cont, indices)>>]
    /\ UNCHANGED <<cont, seqvars, loopvars, concvars>>

\* cont.build_lookup(field)
build_lookup(field) ==
    /\ rret' = [op |-> "build_lookup", field |-> field,
                err |-> BuildLookup(cont.elements, field).err,
                val |-> BuildLookup(cont.elements, field).val]
    /\ UNCHANGED <<cont, seqvars, loopvars, concvars>>

\* cont.build_subsets(field)
build_subsets(field) ==
    /\ rret' = [op |-> "build_subsets", field |-> field,
                err |-> BuildSubsets(cont.elements, field).err,
                val |-> BuildSubsets(cont.elements, field).val]
    /\ UNCHANGED <<cont, seqvars, loopvars, concvars>>

\* ------------------------------------------------------- specification
\* A successfully constructed sequence: parse_bounds_from_pattern found the
\* smallest and the largest index of the files on disk.
InitSeq ==
    /\ lower_bound \in 0..MaxIndex
    /\ upper_bound \in lower_bound..MaxIndex
    /\ immutable_bounds \in BOOLEAN
    /\ iter_index = None
    /\ ret = Ret("init", 0, "", None, FALSE)
    /\ lower0 = lower_bound
    /\ upper0 = upper_bound
    /\ yielded = <<>>
    /\ clean = FALSE
    /\ prevrun = None
    /\ got = [c \in Loops |-> <<>>]
    /\ stat = [c \in Loops |-> "idle"]

\* An empty container of LabeledVideoRecord of the class cls
InitRec(cls) ==
    /\ cont = [cls |-> cls, ELE_CLS |-> ClassObj(LabeledVideoRecord), elements |-> <<>>]
    /\ rret = RRet("init", [err |-> "", key |-> "", val |-> None], None)

Init == InitSeq /\ InitRec(DataRecords)

Next ==
    \/ \E index \in Indices : gen_path(index)
    \/ \E index \in Indices : check_bounds(index)
    \/ \E value \in Indices : set_lower_bound(value)
    \/ \E value \in Indices : set_upper_bound(value)
    \/ Iter
    \/ NextStep

Spec == Init /\ [][Next]_vars

NextConc ==
    \/ \E c \in Loops : LoopIter(c)
    \/ \E c \in Loops : LoopNext(c)

SpecConc == Init /\ [][NextConc]_vars

InitRecords ==
    /\ InitSeq
    /\ lower_bound = 0 /\ upper_bound = 0 /\ immutable_bounds
    /\ \E cls \in ContainerClasses : InitRec(cls)

NextRecords ==
    \/ \E a \in RecordArgs \cap (VideoPaths \X Labels \X Groups) :
            add(a[1], a[2], a[3])
    \/ \E place \in {"container", "element"},
          record_cls \in {None, <<ClassObj(LabeledVideoRecord)>>} :
            round_trip(place, record_cls)
    \/ \E a \in CullArgs : cull(a[1], a[2], a[3])
    \/ \E n \in 0..(MaxRecords - Len(cont.elements)) :
          \E d \in AddDictsOfLen(n), record_cls \in RecordClassArgs :
            add_dict(d, record_cls)
    \/ \E n \in 0..(MaxRecords - Len(cont.elements)) :
          \E d \in AddDictsOfLen(n), record_cls \in RecordClassArgs :
            add_json([path |-> "records.json", content |-> d], record_cls)
    \/ \E indices \in IndexLists(Len(cont.elements)) :
            subset_from_indices(indices)
    \/ \E field \in Fields : build_lookup(field)
    \/ \E field \in Fields : build_subsets(field)

SpecRecords == InitRecords /\ [][NextRecords]_vars

\* The loaders applied to a dictionary and a record_cls argument.
InitLoad ==
    /\ InitSeq
    /\ lower_bound = 0 /\ upper_bound = 0 /\ immutable_bounds
    /\ cont = [cls |-> DataRecords, ELE_CLS |-> ClassObj(LabeledVideoRecord),
               elements |-> <<>>]
    /\ \E d \in Dicts, rc \in RecordClassArgs :
          rret = [op |-> "input", d |-> d, record_cls |-> rc]

NextLoad ==
    \/ from_dict
    \/ from_json
    \/ \E i \in 1..MaxDictLen : record_from_dict(i)

SpecLoad == InitLoad /\ [][NextLoad]_vars

\* ---------------------------------------------------------------- claims
\* The indices lo, lo+1, ..., hi in ascending order.
Range(lo, hi) == [k \in 1..(hi - lo + 1) |-> lo + k - 1]

\* C1: in every reachable state of a constructed sequence, whatever calls
\* of gen_path, the bound setters, check_bounds and iteration steps were
\* made, lower_bound <= upper_bound.
C1_BoundsOrdered == lower_bound <= upper_bound

\* A lower_bound setter was given a value above upper_bound, after
\* gen_path had extended the interval upwards.
C1_Witness ==
    /\ ~immutable_bounds
    /\ ret.op = "set_lower_bound"
    /\ ret.arg > upper_bound
    /\ upper_bound > upper0
    /\ lower_bound = upper_bound

\* C2: on a mutable sequence gen_path(index) with index >= 0 that is one
\* below lower_bound, one above upper_bound or inside the interval returns
\* the path; it moves lower_bound to index in the first case, upper_bound
\* to index in the second and no bound in the third, so a call moves at most
\* one bound, by one step outward.
C2_AdjacentExtension ==
    [][(~immutable_bounds /\ ret'.op = "gen_path" /\ ret'.arg >= 0) =>
        /\ (ret'.arg = lower_bound - 1 =>
               /\ ret'.path = <<Path(ret'.arg)>>
               /\ lower_bound' = ret'.arg
               /\ upper_bound' = upper_bound)
        /\ (ret'.arg = upper_bound + 1 =>
               /\ ret'.path = <<Path(ret'.arg)>>
               /\ upper_bound' = ret'.arg
               /\ lower_bound' = lower_bound)
        /\ ((lower_bound <= ret'.arg /\ ret'.arg <= upper_bound) =>
               /\ ret'.path = <<Path(ret'.arg)>>
               /\ lower_bound' = lower_bound
               /\ upper_bound' = upper_bound)
        /\ \/ lower_bound' = lower_bound /\ upper_bound' = upper_bound
           \/ lower_bound' = lower_bound - 1 /\ upper_bound' = upper_bound
           \/ lower_bound' = lower_bound /\ upper_bound' = upper_bound + 1
      ]_vars

\* gen_path has extended a mutable sequence at both ends, last at the lower.
C2_Witness ==
    /\ ~immutable_bounds
    /\ ret.op = "gen_path"
    /\ ret.path = <<Path(ret.arg)>>
    /\ lower_bound = ret.arg
    /\ lower_bound < lower0
    /\ upper_bound > upper0

\* C3: on a mutable sequence gen_path(index) with a negative index, or an
\* index more than one step outside the interval, raises, returns no path
\* and leaves both bounds as they were; for a nonnegative index the error
\* is the non-adjacent-extension one.
C3_NonAdjacentRejected ==
    [][(/\ ~immutable_bounds
        /\ ret'.op = "gen_path"
        /\ \/ ret'.arg < 0
           \/ ret'.arg < lower_bound - 1
           \/ ret'.arg > upper_bound + 1) =>
        /\ ret'.err # ""
        /\ ret'.path = None
        /\ lower_bound' = lower_bound
        /\ upper_bound' = upper_bound
        /\ (ret'.arg >= 0 => ret'.err = "NonAdjacentExtensionError")
      ]_vars

\* After an extension of the upper bound, an index two or more above it
\* was refused.
C3_Witness ==
    /\ ~immutable_bounds
    /\ upper_bound > upper0
    /\ ret.op = "gen_path"
    /\ ret.arg > upper_bound + 1
    /\ ret.err = "NonAdjacentExtensionError"

\* C4: on an immutable sequence gen_path(index) returns the path exactly
\* when lower_bound <= index <= upper_bound, and raises the out-of-bounds
\* error for every other index.
C4_ImmutableInBoundsOnly ==
    [][(immutable_bounds /\ ret'.op = "gen_path") =>
        IF lower_bound <= ret'.arg /\ ret'.arg <= upper_bound
        THEN ret'.err = "" /\ ret'.path = <<Path(ret'.arg)>>
        ELSE ret'.err = "OutOfBoundsError" /\ ret'.path = None
      ]_vars

\* The index one above the upper bound was refused on an immutable sequence.
C4_Witness ==
    /\ immutable_bounds
    /\ ret.op = "gen_path"
    /\ ret.arg = upper_bound + 1
    /\ ret.err = "OutOfBoundsError"

\* C5: an immutable sequence keeps the bounds it was constructed with, and
\* setting either bound on it raises the immutable-sequence error.
C5_ImmutableBoundsFrozen ==
    immutable_bounds =>
        /\ lower_bound = lower0
        /\ upper_bound = upper0
        /\ (ret.op \in {"set_lower_bound", "set_upper_bound"} =>
               ret.err = "ImmutableSequenceError")

\* The upper_bound setter was called on an immutable sequence with a value
\* above the bound.
C5_Witness ==
    /\ immutable_bounds
    /\ ret.op = "set_upper_bound"
    /\ ret.arg > upper_bound
    /\ ret.err = "ImmutableSequenceError"

\* C6: in an iteration with no other call in between, the first next()
\* that returns no path raises StopIteration, and by then the iteration has
\* returned the paths of lower_bound, ..., upper_bound in ascending order
\* (upper_bound - lower_bound + 1 of them), the same run as the undisturbed
\* iteration before it.
C6_IterationYieldsInterval ==
    (clean /\ ret.op = "next" /\ ret.path = None /\ ret.err # "TypeError") =>
        /\ ret.err = "StopIteration"
        /\ yielded = Range(lower_bound, upper_bound)
        /\ Len(yielded) = upper_bound - lower_bound + 1
        /\ (prevrun # None => prevrun[1] = yielded)

\* C7: on a mutable sequence the lower_bound setter stores the smaller of
\* the value and upper_bound, the upper_bound setter the larger of the value
\* and lower_bound; the other bound is untouched and the interval is never
\* inverted.
C7_SettersClamp ==
    [][~immutable_bounds =>
        /\ (ret'.op = "set_lower_bound" =>
               /\ ret'.err = ""
               /\ lower_bound' = (IF ret'.arg <= upper_bound THEN ret'.arg ELSE upper_bound)
               /\ upper_bound' = upper_bound
               /\ lower_bound' <= upper_bound')
        /\ (ret'.op = "set_upper_bound" =>
               /\ ret'.err = ""
               /\ upper_bound' = (IF ret'.arg >= lower_bound THEN ret'.arg ELSE lower_bound)
               /\ lower_bound' = lower_bound
               /\ lower_bound' <= upper_bound')
      ]_vars

\* The upper_bound setter was given a value below lower_bound.
C7_Witness ==
    /\ ~immutable_bounds
    /\ ret.op = "set_upper_bound"
    /\ ret.arg < lower_bound
    /\ upper_bound = lower_bound

\* C8: the loops over one instance share its cursor: every iter() puts the
\* cursor one step before lower_bound whichever loop used it last, and every
\* next() that returns a path returns the one following the cursor, whichever
\* loop moved it there.
C8_SharedCursor ==
    [][/\ (ret'.op = "iter" => iter_index' = <<lower_bound - 1>>)
       /\ (ret'.op = "next" /\ ret'.path # None =>
              /\ iter_index # None
              /\ ret'.path = <<Path(iter_index[1] + 1)>>
              /\ iter_index' = <<iter_index[1] + 1>>)
      ]_vars

\* Two loops ran over an immutable sequence and the one that ended normally
\* did not receive lower_bound, ..., upper_bound once each in order.
C8_Witness ==
    /\ immutable_bounds
    /\ stat[1] = "done"
    /\ stat[2] # "idle"
    /\ got[1] # Range(lower_bound, upper_bound)

\* C9: check_bounds(index) returns true exactly when
\* lower_bound <= index <= upper_bound, raises nothing and leaves the bounds
\* and the cursor as they were, on mutable and immutable sequences.
C9_CheckBoundsPure ==
    [][ret'.op = "check_bounds" =>
        /\ ret'.err = ""
        /\ ret'.flag = (lower_bound <= ret'.arg /\ ret'.arg <= upper_bound)
        /\ UNCHANGED <<lower_bound, upper_bound, iter_index, immutable_bounds>>
      ]_vars

\* check_bounds answered false for the index one above the upper bound of a
\* mutable sequence whose iteration was under way.
C9_Witness ==
    /\ ~immutable_bounds
    /\ iter_index # None
    /\ ret.op = "check_bounds"
    /\ ret.arg = upper_bound + 1
    /\ ret.flag = FALSE

\* C10: loading the serialized form of a container with no record class
\* given by the caller succeeds and returns a container of the same class,
\* with the same element class and the same elements in the same order.
C10_RoundTrip ==
    (rret.op = "round_trip" /\ rret.record_cls = None) =>
        /\ rret.err = ""
        /\ rret.val = <<cont>>

\* C11: a load (from_dict, from_json) fails for want of a record class
\* exactly when the caller gives none and the map has no _RECORD_CLS tag;
\* with a record class given, every element is built by it; with none
\* given, the class the tag names is resolved and builds every element.
C11_RecordClassChoice ==
    rret.op \in {"from_dict", "from_json"} =>
        LET tag == rret.d.RECORD_CLS
            wellformed == \A i \in 1..Len(rret.d.records) :
                             Elems(required(LabeledVideoRecord))
                                 \subseteq DOMAIN rret.d.records[i]
            UsedClass(c) ==
                wellformed =>
                    /\ rret.err = ""
                    /\ rret.val[1].ELE_CLS = c
                    /\ Len(rret.val[1].elements) = Len(rret.d.records)
                    /\ \A i \in 1..Len(rret.d.records) :
                          rret.val[1].elements[i].cls = c.name
        IN /\ (rret.err = "MissingRecordClassError") <=>
                  (rret.record_cls = None /\ tag = None)
           /\ (rret.record_cls # None => UsedClass(rret.record_cls[1]))
           /\ (rret.record_cls = None /\ tag # None =>
                  UsedClass(ClassObj(tag[1].name)))

\* C18: LabeledVideoRecord.from_dict raises, naming a required key the map
\* lacks, and builds no record whenever a required key is missing; with all
\* required keys present it builds the record from the required keys and
\* the optional keys present, whatever other keys the map has.
C18_RequiredKeys ==
    rret.op = "record_from_dict" =>
        LET req == Elems(required(LabeledVideoRecord))
            opt == Elems(optional(LabeledVideoRecord))
        IN IF \E k \in req : k \notin DOMAIN rret.rd
           THEN /\ rret.err = "MissingRequiredField"
                /\ rret.key \in req
                /\ rret.key \notin DOMAIN rret.rd
                /\ rret.rec = None
           ELSE /\ rret.err = ""
                /\ rret.rec # None
                /\ DOMAIN rret.rec[1].attrs = req \cup (opt \cap DOMAIN rret.rd)
                /\ \A k \in DOMAIN rret.rec[1].attrs :
                      rret.rec[1].attrs[k] = rret.rd[k]

\* A map with the optional group but without the required video_path was
\* refused, the error naming video_path.
C18_Witness ==
    /\ rret.op = "record_from_dict"
    /\ "group" \in DOMAIN rret.rd
    /\ rret.err = "MissingRequiredField"
    /\ rret.key = "video_path"
    /\ rret.rec = None

\* A list was given: the argument is neither None nor empty.
Given(values) == values # None /\ Len(values[1]) > 0

\* C12: after cull(field, keep_values=V) with a non-empty V on a container
\* whose records all have the field, build_keyset(field) gives the values
\* of V that the field had before the call.
C12_KeepThenKeyset ==
    [][(/\ rret'.op = "cull"
        /\ Given(rret'.keep) /\ ~Given(rret'.remove)
        /\ HasField(cont.elements, rret'.field)) =>
        /\ rret'.err = ""
        /\ BuildKeyset(cont'.elements, rret'.field).val =
               Elems(rret'.keep[1]) \cap BuildKeyset(cont.elements, rret'.field).val
      ]_vars

\* The outcome of a cull step equals that of cull(field, keep_values =
\* build_keyset(field) minus D) on the container before the step.
SameAsKeepingTheRest(D) ==
    LET rest == BuildKeyset(cont.elements, rret'.field).val \ Elems(D)
        o == Cull(cont.elements, rret'.field, <<SetToSeq(rest)>>, None)
    IN rret'.err = o.err /\ cont'.elements = o.elements

\* C13 as stated: cull(field, remove_values=D) has the outcome of
\* cull(field, keep_values = build_keyset(field) minus D), for every D.
C13_DropIsKeepOfRest_AnyD ==
    [][(rret'.op = "cull" /\ rret'.keep = None /\ rret'.remove # None) =>
        SameAsKeepingTheRest(rret'.remove[1])
      ]_vars

\* C13, amended: cull(field, remove_values=D) with a non-empty D has the
\* outcome (the same elements left, or the same error) of
\* cull(field, keep_values = build_keyset(field) minus D).
C13_DropIsKeepOfRest ==
    [][(rret'.op = "cull" /\ rret'.keep = None /\ Given(rret'.remove)) =>
        SameAsKeepingTheRest(rret'.remove[1])
      ]_vars

\* remove_values = ["cat"] removed a record and left another.
C13_Witness ==
    /\ rret.op = "cull"
    /\ rret.keep = None
    /\ rret.remove = <<<<"cat">>>>
    /\ rret.err = ""
    /\ rret.size[1] >= 1
    /\ rret.before > rret.size[1]

\* C14: on a container whose records all have the field, cull raises the
\* no-criteria error exactly when neither list is given, and with a
\* non-empty remove_values it succeeds, leaving the values of the field
\* that are not in remove_values, also when none is left.
C14_NoCriteriaOnlyWhenNoneGiven ==
    [][(rret'.op = "cull" /\ HasField(cont.elements, rret'.field)) =>
        /\ (rret'.err = "NoFilterCriteriaError") <=>
               (~Given(rret'.keep) /\ ~Given(rret'.remove))
        /\ (Given(rret'.remove) =>
               /\ rret'.err = ""
               /\ BuildKeyset(cont'.elements, rret'.field).val =
                      BuildKeyset(cont.elements, rret'.field).val
                          \ Elems(rret'.remove[1]))
      ]_vars

\* C15: a cull(field, keep_values=V) that returns leaves exactly the
\* elements whose field value is in V, in the order they had, whatever the
\* order of V, changes nothing else of the container and returns its new
\* size.
C15_KeepFiltersInPlace ==
    [][(rret'.op = "cull" /\ rret'.err = "" /\ ~Given(rret'.remove)) =>
        LET InV(r) == r.attrs[rret'.field] \in Elems(rret'.keep[1])
        IN /\ cont'.elements = SelectSeq(cont.elements, InV)
           /\ cont'.cls = cont.cls
           /\ cont'.ELE_CLS = cont.ELE_CLS
           /\ rret'.size = <<Len(cont'.elements)>>
      ]_vars

\* keep_values = ["dog", "cat"] on a container holding a cat record before
\* a dog record.
C15_Witness ==
    /\ rret.op = "cull"
    /\ rret.keep = <<<<"dog", "cat">>>>
    /\ rret.err = ""
    /\ Len(cont.elements) = 2
    /\ cont.elements[1].attrs["label"] = "cat"
    /\ cont.elements[2].attrs["label"] = "dog"

\* C16: subset_from_indices(indices) leaves the container as it was, and
\* the container it returns holds the elements keep_inds(indices) would
\* leave in a copy.
C16_SubsetLeavesSource ==
    [][rret'.op = "subset_from_indices" =>
        /\ cont' = cont
        /\ rret'.val[1].elements = KeepInds(cont.elements, rret'.indices)
        /\ rret'.val[1].cls = cont.cls
        /\ rret'.val[1].ELE_CLS = cont.ELE_CLS
      ]_vars

\* The subset of the second of two elements was taken.
C16_Witness ==
    /\ rret.op = "subset_from_indices"
    /\ rret.indices = <<1>>
    /\ Len(cont.elements) = 2
    /\ rret.val[1].elements = <<cont.elements[2]>>

\* C17: build_lookup(field) returns a map whose keys are the values the
\* field has among the elements, each with the ascending, non-empty list of
\* the positions of the elements having it, every position 0..size-1 being
\* in exactly one list; build_subsets(field) maps each key to the elements
\* at those positions in that order.
C17_LookupPartitions ==
    LET els == cont.elements
        n == Len(els)
        f == rret.field
    IN /\ (rret.op = "build_lookup" /\ rret.err = "") =>
            LET lud == rret.val IN
            /\ DOMAIN lud = {els[i].attrs[f] : i \in 1..n}
            /\ \A k \in DOMAIN lud :
                  /\ Len(lud[k]) > 0
                  /\ \A j \in 1..Len(lud[k]) :
                        /\ lud[k][j] \in 0..(n - 1)
                        /\ els[lud[k][j] + 1].attrs[f] = k
                        /\ (j > 1 => lud[k][j - 1] < lud[k][j])
            /\ \A i \in 0..(n - 1) :
                  Cardinality({kj \in {<<k, j>> : k \in DOMAIN lud, j \in 1..n} :
                                  kj[2] <= Len(lud[kj[1]])
                                  /\ lud[kj[1]][kj[2]] = i}) = 1
       /\ (rret.op = "build_subsets" /\ rret.err = "") =>
            LET lud == BuildLookup(els, f).val IN
            /\ DOMAIN rret.val = DOMAIN lud
            /\ \A k \in DOMAIN lud :
                  rret.val[k] = [j \in 1..Len(lud[k]) |-> els[lud[k][j] + 1]]
       /\ (rret.op \in {"build_lookup", "build_subsets"} =>
              (rret.err = "" <=> HasField(els, f)))

\* build_lookup found two elements with the same value of the field.
C17_Witness ==
    /\ rret.op = "build_lookup"
    /\ rret.err = ""
    /\ \E k \in DOMAIN rret.val : rret.val[k] = <<0, 1>>

\* C19: no element has an attribute whose value is no_default, and
\* attributes() lists the attributes the element has; a record constructed
\* without group has no group attribute, one constructed with group=None
\* has it, with the value None, and attributes() lists it.
C19_UnsetOptionalPruned ==
    /\ \A i \in 1..Len(cont.elements) :
          LET e == cont.elements[i] IN
          /\ \A a \in DOMAIN e.attrs : e.attrs[a] # no_default
          /\ attributes(e) = DOMAIN e.attrs
    /\ rret.op = "add" =>
          LET e == cont.elements[Len(cont.elements)] IN
          /\ (rret.group = no_default =>
                 "group" \notin DOMAIN e.attrs /\ "group" \notin attributes(e))
          /\ (rret.group # no_default =>
                 /\ "group" \in DOMAIN e.attrs
                 /\ "group" \in attributes(e)
                 /\ e.attrs["group"] = rret.group)

\* A record constructed with group=None was added after one constructed
\* without group.
C19_Witness ==
    /\ rret.op = "add"
    /\ rret.group = PyNone
    /\ Len(cont.elements) = 2
    /\ "group" \notin DOMAIN cont.elements[1].attrs
    /\ cont.elements[2].attrs["group"] = PyNone

\* C20: a cull, add_dict or add_json that raises leaves the container as
\* it was.
C20_FailureLeavesElements ==
    [][(rret'.op \in {"cull", "add_dict", "add_json"} /\ rret'.err # "") =>
        cont' = cont
      ]_vars

\* add_dict was given a map whose first record loads and whose second
\* lacks a required key.
C20_Witness ==
    /\ rret.op = "add_dict"
    /\ rret.err = "MissingRequiredField"
    /\ rret.preceding >= 1
    /\ rret.given > rret.preceding

\* C21: iter(seq) and next(seq) leave lower_bound and upper_bound as they
\* were, on a mutable sequence too: a step that returns a path returns the
\* one of an index that was within [lower_bound, upper_bound] before the
\* step, and the step taken with the cursor at upper_bound raises
\* StopIteration.
C21_IterationKeepsBounds ==
    [][ret'.op \in {"iter", "next"} =>
        /\ lower_bound' = lower_bound
        /\ upper_bound' = upper_bound
        /\ (ret'.op = "next" /\ ret'.path # None =>
               InBounds(ret'.path[1].index, lower_bound, upper_bound))
        /\ (ret'.op = "next" /\ iter_index = <<upper_bound>> =>
               ret'.err = "StopIteration" /\ ret'.path = None)
      ]_vars

\* An undisturbed iteration over a mutable sequence returned at least two
\* paths and then ended.
C21_Witness ==
    /\ ~immutable_bounds
    /\ clean
    /\ ret.op = "next"
    /\ ret.err = "StopIteration"
    /\ Len(yielded) >= 2

\* C22: a next(seq) that directly follows a next(seq) that raised
\* StopIteration raises StopIteration again and returns no path, and a
\* next(seq) taken while no iteration is in progress returns no path.
C22_EndIsSticky ==
    [][ret'.op = "next" =>
        /\ (iter_index = None => ret'.path = None)
        /\ (ret.op = "next" /\ ret.err = "StopIteration" =>
               ret'.err = "StopIteration" /\ ret'.path = None)
      ]_vars

====
